---- MODULE Spec2Model ----
(***************************************************************************)
(* PdfService (app/pdf_service.py) and the POST /pdf handler (app/main.py) *)
(* as a state machine.  Every coroutine call is a task; a task runs        *)
(* atomically from one `await` to the next (asyncio's cooperative          *)
(* scheduling), so there is one action per awaited operation: the action   *)
(* resolves the await (the operation succeeds or raises) and runs the      *)
(* code that follows it up to the next await.                              *)
(***************************************************************************)
EXTENDS Naturals, Sequences, FiniteSets

\* Number of calls (of start, stop and generate_pdf together) made on the service.
MaxCalls == 3

\* The calls of each kind, by task id; at most MaxCalls of them are ever made.
StartTasks == 1 .. MaxCalls
StopTasks == (MaxCalls + 1) .. (2 * MaxCalls)
GenTasks == (2 * MaxCalls + 1) .. (3 * MaxCalls)
Tasks == StartTasks \cup StopTasks \cup GenTasks
LifeTasks == StartTasks \cup StopTasks

\* The id of a Playwright instance handed to the constructor; 0 stands for None.
Injected == 3 * MaxCalls + 1

VARIABLES
    playwright,       \* self._playwright: 0 is None, else a launcher id
    browser,          \* self._browser: 0 is None, else a browser id
    owns_playwright,  \* self._owns_playwright
    is_ready,         \* self._is_ready
    launchers,        \* the Playwright launchers, named by the start() call that made them
    browsers,         \* the browsers, named by the call that launched them
    contexts,         \* the browser contexts, named by the generate_pdf call that made them
    pages,            \* the pages, named by the generate_pdf call that made them
    pc,               \* each task's position (the await it is suspended at)
    loc,              \* each task's local variables
    result,           \* what each finished call returned or raised
    response,         \* the HTTP response POST /pdf builds from a generate_pdf call
    hist,             \* the last lifecycle call that finished, and how
    app,              \* who drives the service: "direct" callers of its methods, or
                      \* the FastAPI application, whose lifespan is in phase "boot",
                      \* "starting", "serving", "stopping", "stopped" or "failed"
    built             \* the last call of _build_pdf_options, if any: <<>> or
                      \* <<[options |-> its argument, directive |-> what it returned]>>

svc == <<playwright, browser, owns_playwright, is_ready>>
env == <<launchers, browsers, contexts, pages>>
vars == <<playwright, browser, owns_playwright, is_ready, launchers, browsers,
          contexts, pages, pc, loc, result, response, hist, app, built>>

\* The awaited calls of the try block of generate_pdf, in program order.
PipelineCaptureBeforeFonts ==
    <<"viewport", "content", "measure", "style", "resize", "pdf", "fonts">>

Pipeline == <<"viewport", "content", "measure", "style", "resize", "fonts", "pdf">>

\* The exceptions an awaited call can raise: set_content and launch take a
\* timeout and can raise Playwright's TimeoutError, any call can fail otherwise.
StepErrors(step) == IF step \in {"content", "launch"} THEN {"Error", "Timeout"} ELSE {"Error"}

\* page.set_content(..., timeout=180000) and the first viewport, 3000 x 3000.
ContentTimeout == 180000
InitialViewport == 3000

\* A string is the sequence of its characters; these are the whitespace ones.
Whitespace == {" ", "\t", "\n"}

RECURSIVE LStrip(_)
LStrip(v) == IF v # <<>> /\ Head(v) \in Whitespace THEN LStrip(Tail(v)) ELSE v

RECURSIVE RStrip(_)
RStrip(v) ==
    IF v # <<>> /\ v[Len(v)] \in Whitespace THEN RStrip(SubSeq(v, 1, Len(v) - 1)) ELSE v

\* str.strip()
Strip(v) == RStrip(LStrip(v))

\* PdfOptions(): an optional value is <<>> for None, else <<value>>.
DefaultOptions ==
    [format |-> "A4", landscape |-> FALSE, print_background |-> TRUE,
     margin_top |-> <<>>, margin_bottom |-> <<>>, margin_left |-> <<>>,
     margin_right |-> <<>>, scale |-> <<>>]

LetterLandscape == [DefaultOptions EXCEPT !.format = "Letter", !.landscape = TRUE]

LegalWithMargins ==
    [DefaultOptions EXCEPT !.format = "Legal", !.print_background = FALSE,
                           !.margin_top = <<"1cm">>, !.margin_bottom = <<"1cm">>,
                           !.margin_left = <<"2cm">>, !.margin_right = <<"2cm">>,
                           !.scale = <<2>>]

SampleHtml == <<"<", "p", ">">>
PaddedHtml == <<" ", "<", "p", ">", "\n">>

\* The body of a POST /pdf request: html (possibly missing) and options
\* (possibly missing, which is None).
Body(has, html, options) == [has_html |-> has, html |-> html, options |-> options]

NoBody == Body(FALSE, <<>>, <<>>)

DefaultBody == Body(TRUE, SampleHtml, <<>>)

RequestBodies ==
    {NoBody, Body(TRUE, <<>>, <<>>), Body(TRUE, <<" ">>, <<>>),
     Body(TRUE, <<"\n", "\t">>, <<LetterLandscape>>)}
    \cup {Body(TRUE, PaddedHtml, o) : o \in {<<>>, <<LetterLandscape>>, <<LegalWithMargins>>}}

\* The requests made: the application receives any body; a direct caller passes
\* the sample document and no options.
Bodies == IF app = "direct" THEN {DefaultBody} ELSE RequestBodies

\* PdfRequest: html is required, Field(min_length=1), and the validator
\* html_must_not_be_empty raises when `not v or not v.strip()`.
ValidHtmlMinLengthOnly(body) == body.has_html /\ Len(body.html) >= 1

ValidHtml(body) ==
    /\ body.has_html
    /\ Len(body.html) >= 1
    /\ ~(body.html = <<>> \/ Strip(body.html) = <<>>)

\* Lines 92-93: `if options is None: options = PdfOptions()`.
ResolvedOptions(body) == IF body.options = <<>> THEN DefaultOptions ELSE body.options[1]

\* What the measuring page.evaluate of lines 117-133 can return.
Geometry(w, h) == [width |-> w, height |-> h]

Geometries == IF app = "direct" THEN {Geometry(800, 600)} ELSE {Geometry(0, 0), Geometry(800, 600)}

\* What page.pdf can return: Chromium writes a PDF, which starts with %PDF.
PdfBuffers ==
    IF app = "direct" THEN {<<"%PDF", "-1.4">>} ELSE {<<"%PDF", "-1.4">>, <<"%PDF", "-1.7", "%%EOF">>}

\* f"{n}px"
Px(n) == <<n, "px">>

NoLoc ==
    [browser |-> 0, pw |-> 0, context |-> 0, page |-> 0, exc |-> "none", pre |-> FALSE,
     req |-> NoBody, dims |-> <<>>, ret |-> <<>>, calls |-> <<>>]

NoResponse == [status |-> 0, detail |-> <<>>, content |-> <<>>]

\* The response FastAPI gives when the body does not validate as a PdfRequest.
ValidationResponse == [status |-> 422, detail |-> <<"body", "html">>, content |-> <<>>]

\* str(e) of what generate_pdf raised.
Message(res) ==
    CASE res = "NotReady" -> "PDF service is not started or not ready"
      [] res = "NoBrowser" -> "No browser available"
      [] OTHER -> res

\* The except clauses and the final Response of the POST /pdf handler.
RespondTimeoutAs500(res, pdf_bytes) ==
    IF res = "ok"
    THEN [status |-> 200, detail |-> <<>>, content |-> pdf_bytes]
    ELSE [status |-> 500, detail |-> <<"PDF generation failed: ", Message(res)>>,
          content |-> <<>>]

Respond(res, pdf_bytes) ==
    IF res = "ok"
    THEN [status |-> 200, detail |-> <<>>, content |-> pdf_bytes]
    ELSE IF res = "Timeout"
    THEN [status |-> 504,
          detail |-> <<"PDF generation timed out - HTML too large or complex">>,
          content |-> <<>>]
    ELSE [status |-> 500, detail |-> <<"PDF generation failed: ", Message(res)>>,
          content |-> <<>>]

\* The state after PdfService(playwright=None) or PdfService(playwright=<injected>).
InitWith(injected, driver) ==
        /\ app = driver
        /\ built = <<>>
        /\ playwright = IF injected THEN Injected ELSE 0
        /\ browser = 0
        /\ owns_playwright = ~injected
        /\ is_ready = injected
        /\ launchers = [l \in StartTasks \cup {Injected} |->
                           [state |-> IF injected /\ l = Injected THEN "running" ELSE "none",
                            stops |-> 0]]
        /\ browsers = [b \in StartTasks \cup GenTasks |->
                          [state |-> "none", pw |-> 0, closes |-> 0]]
        /\ contexts = [c \in GenTasks |->
                          [state |-> "none", browser |-> 0, closes |-> 0, users |-> {}]]
        /\ pages = [p \in GenTasks |->
                       [state |-> "none", context |-> 0, closes |-> 0, users |-> {},
                        captured |-> <<>>]]
        /\ pc = [t \in Tasks |-> "idle"]
        /\ loc = [t \in Tasks |-> NoLoc]
        /\ result = [t \in Tasks |-> "none"]
        /\ response = [t \in GenTasks |-> NoResponse]
        /\ hist = "none"

\* A service constructed and driven by direct calls of its methods (as the tests do).
Init == \E injected \in BOOLEAN : InitWith(injected, "direct")

\* The application at process start: main.lifespan has not run yet; it will
\* construct PdfService() and drive it.
InitApp == InitWith(FALSE, "boot")

\* Calls of one kind are interchangeable: they are made in the order of their ids.
Callable(t, S) ==
    /\ pc[t] = "idle"
    /\ \A u \in S : u < t => pc[u] # "idle"
    /\ Cardinality({u \in Tasks : pc[u] # "idle"}) < MaxCalls

InFlight(t) == pc[t] \notin {"idle", "done", "rejected"}

\* main.lifespan: `pdf_service = PdfService(); await pdf_service.start()`, then
\* `yield` (the application serves requests), then `await pdf_service.stop()`.
\* The phase of the lifespan after a step of its start() call that leaves the
\* call at position p with result r: an exception of start() leaves the lifespan
\* before the yield.
AppYieldsAtOnce(p, r) ==
    IF app \in {"boot", "starting"} THEN "serving" ELSE app

AppAfterStart(p, r) ==
    IF app \in {"boot", "starting"}
    THEN (IF p # "done" THEN "starting" ELSE IF r = "ok" THEN "serving" ELSE "failed")
    ELSE app

\* The phase of the lifespan after a step of its stop() call.
AppAfterStop(p) ==
    IF app \in {"serving", "stopping"}
    THEN (IF p # "done" THEN "stopping" ELSE "stopped")
    ELSE app

\* The lifespan calls start() once, before the yield.
MayStart == app \in {"direct", "boot"}

\* The server resumes the lifespan after the yield at shutdown, once the
\* requests in flight have completed.
MayStop ==
    \/ app = "direct"
    \/ app = "serving" /\ \A u \in GenTasks : ~InFlight(u)

\* The requests the application can be sent: of the MaxCalls calls made on its
\* service, the lifespan makes two (start and stop).
RequestQuota == IF app = "direct" THEN MaxCalls ELSE MaxCalls - 2

\* The server routes requests to the handler whatever became of the startup.
MayRequestAfterFailedStart ==
    /\ app \in {"direct", "serving", "failed"}
    /\ Cardinality({u \in GenTasks : pc[u] # "idle"}) < RequestQuota

\* The server routes requests to the handler while the lifespan is at the yield.
MayRequest ==
    /\ app \in {"direct", "serving"}
    /\ Cardinality({u \in GenTasks : pc[u] # "idle"}) < RequestQuota

OthersInFlight(t) == \E u \in LifeTasks \ {t} : InFlight(u)

\* hist while a lifecycle call runs: alone, or overlapping another lifecycle call.
HistAtCall(t) == IF OthersInFlight(t) THEN "overlap" ELSE "solo"

HistAtFinish(h, outcome) == IF h = "solo" THEN outcome ELSE "overlap"

\* The call returns or raises: its frame is gone, and with it the record (calls)
\* of the calls it made on its page; exc, pre and req are kept as a record of what
\* the try block raised, of the state the call was made in and of the request it
\* served.
Return(t, res) ==
    /\ pc' = [pc EXCEPT ![t] = "done"]
    /\ result' = [result EXCEPT ![t] = res]

DropFrame(t, l) == [NoLoc EXCEPT !.exc = l.exc, !.pre = l.pre, !.req = l.req]

\* chromium.launch(headless=True) returned a browser.
Launched(t, pw) ==
    [browsers EXCEPT ![t] = [state |-> "open", pw |-> pw, closes |-> 0]]

CanLaunch(pw) == launchers[pw].state = "running"

BrowserOpen(b) == browsers[b].state = "open"

----------------------------------------------------------------------------
\* PdfService.start

StartCall(t) ==
    /\ t \in StartTasks /\ Callable(t, StartTasks) /\ MayStart
    /\ LET l == [loc[t] EXCEPT !.pre = (hist = "start_ok")] IN
       IF is_ready /\ playwright = 0
       THEN \* "PDF service already started"
            /\ Return(t, "ok")
            /\ loc' = [loc EXCEPT ![t] = DropFrame(t, l)]
            /\ hist' = HistAtFinish(HistAtCall(t), "start_ok")
       ELSE IF owns_playwright
       THEN /\ pc' = [pc EXCEPT ![t] = "pw_start"]
            /\ loc' = [loc EXCEPT ![t] = l]
            /\ hist' = HistAtCall(t)
            /\ UNCHANGED result
       ELSE IF playwright # 0
       THEN /\ pc' = [pc EXCEPT ![t] = "launch"]
            /\ loc' = [loc EXCEPT ![t] = [l EXCEPT !.pw = playwright]]
            /\ hist' = HistAtCall(t)
            /\ UNCHANGED result
       ELSE /\ Return(t, "ok")
            /\ loc' = [loc EXCEPT ![t] = DropFrame(t, l)]
            /\ hist' = HistAtFinish(HistAtCall(t), "start_ok")
    /\ UNCHANGED <<svc, env, response>>
    /\ app' = AppAfterStart(pc'[t], result'[t])
    /\ UNCHANGED built

\* await playwright_context.start() resolves.
StartPwDone(t) ==
    /\ t \in StartTasks /\ pc[t] = "pw_start"
    /\ \/ /\ launchers' = [launchers EXCEPT ![t].state = "running"]
          /\ playwright' = t
          /\ pc' = [pc EXCEPT ![t] = "launch"]
          /\ loc' = [loc EXCEPT ![t].pw = t]
          /\ UNCHANGED <<result, hist>>
       \/ /\ Return(t, "Error")
          /\ loc' = [loc EXCEPT ![t] = DropFrame(t, loc[t])]
          /\ hist' = HistAtFinish(hist, "start_err")
          /\ UNCHANGED <<playwright, launchers>>
    /\ UNCHANGED <<browser, owns_playwright, is_ready, browsers, contexts, pages, response>>
    /\ app' = AppAfterStart(pc'[t], result'[t])
    /\ UNCHANGED built

\* Line 58 resolves, a launch that raised being awaited again.
StartLaunchRetries(t) ==
    /\ t \in StartTasks /\ pc[t] = "launch"
    /\ \/ /\ CanLaunch(loc[t].pw)
          /\ browsers' = Launched(t, loc[t].pw)
          /\ browser' = t
          /\ is_ready' = TRUE
          /\ Return(t, "ok")
          /\ hist' = HistAtFinish(hist, "start_ok")
          /\ loc' = [loc EXCEPT ![t] = DropFrame(t, loc[t])]
       \/ /\ loc[t].exc = "none"
          /\ loc' = [loc EXCEPT ![t].exc = "Error"]
          /\ UNCHANGED <<browser, is_ready, browsers, pc, result, hist>>
       \/ /\ loc[t].exc # "none"
          /\ \E e \in StepErrors("launch") : Return(t, e)
          /\ hist' = HistAtFinish(hist, "start_err")
          /\ loc' = [loc EXCEPT ![t] = DropFrame(t, loc[t])]
          /\ UNCHANGED <<browser, is_ready, browsers>>
    /\ UNCHANGED <<playwright, owns_playwright, launchers, contexts, pages, response>>
    /\ app' = AppAfterStart(pc'[t], result'[t])
    /\ UNCHANGED built

\* await self._playwright.chromium.launch(headless=True) resolves.
StartLaunchDone(t) ==
    /\ t \in StartTasks /\ pc[t] = "launch"
    /\ \/ /\ CanLaunch(loc[t].pw)
          /\ browsers' = Launched(t, loc[t].pw)
          /\ browser' = t
          /\ is_ready' = TRUE
          /\ Return(t, "ok")
          /\ hist' = HistAtFinish(hist, "start_ok")
       \/ /\ \E e \in StepErrors("launch") : Return(t, e)
          /\ hist' = HistAtFinish(hist, "start_err")
          /\ UNCHANGED <<browser, is_ready, browsers>>
    /\ loc' = [loc EXCEPT ![t] = DropFrame(t, loc[t])]
    /\ UNCHANGED <<playwright, owns_playwright, launchers, contexts, pages, response>>
    /\ app' = AppAfterStart(pc'[t], result'[t])
    /\ UNCHANGED built

----------------------------------------------------------------------------
\* PdfService.stop

\* Lines 73-78 of stop, run once the browser is dealt with: stop the launcher if
\* the service owns one, else mark the service not ready and return.
StopTailKeepsReady(t) ==
    IF owns_playwright /\ playwright # 0
    THEN /\ pc' = [pc EXCEPT ![t] = "pw_stop"]
         /\ loc' = [loc EXCEPT ![t] = [NoLoc EXCEPT !.pw = playwright]]
         /\ hist' = IF pc[t] = "idle" THEN HistAtCall(t) ELSE hist
         /\ UNCHANGED <<is_ready, result>>
    ELSE /\ UNCHANGED is_ready
         /\ Return(t, "ok")
         /\ loc' = [loc EXCEPT ![t] = NoLoc]
         /\ hist' = HistAtFinish(IF pc[t] = "idle" THEN HistAtCall(t) ELSE hist, "stop_ok")

StopTail(t) ==
    IF owns_playwright /\ playwright # 0
    THEN /\ pc' = [pc EXCEPT ![t] = "pw_stop"]
         /\ loc' = [loc EXCEPT ![t] = [NoLoc EXCEPT !.pw = playwright]]
         /\ hist' = IF pc[t] = "idle" THEN HistAtCall(t) ELSE hist
         /\ UNCHANGED <<is_ready, result>>
    ELSE /\ is_ready' = FALSE
         /\ Return(t, "ok")
         /\ loc' = [loc EXCEPT ![t] = NoLoc]
         /\ hist' = HistAtFinish(IF pc[t] = "idle" THEN HistAtCall(t) ELSE hist, "stop_ok")

StopCall(t) ==
    /\ t \in StopTasks /\ Callable(t, StopTasks) /\ MayStop
    /\ IF browser # 0
       THEN /\ pc' = [pc EXCEPT ![t] = "browser_close"]
            /\ loc' = [loc EXCEPT ![t].browser = browser]
            /\ hist' = HistAtCall(t)
            /\ UNCHANGED <<is_ready, result>>
       ELSE StopTail(t)
    /\ UNCHANGED <<playwright, browser, owns_playwright, env, response>>
    /\ app' = AppAfterStop(pc'[t])
    /\ UNCHANGED built

\* await self._browser.close() resolves.
StopCloseKeepsBrowser(t) ==
    /\ t \in StopTasks /\ pc[t] = "browser_close"
    /\ \/ /\ browsers' = [browsers EXCEPT ![loc[t].browser].state = "closed",
                                            ![loc[t].browser].closes = @ + 1]
          /\ UNCHANGED browser
          /\ StopTail(t)
       \/ /\ browsers' = [browsers EXCEPT ![loc[t].browser].closes = @ + 1]
          /\ Return(t, "Error")
          /\ loc' = [loc EXCEPT ![t] = NoLoc]
          /\ hist' = HistAtFinish(hist, "stop_err")
          /\ UNCHANGED <<browser, is_ready>>
    /\ UNCHANGED <<playwright, owns_playwright, launchers, contexts, pages, response>>
    /\ app' = AppAfterStop(pc'[t])
    /\ UNCHANGED built

StopCloseDone(t) ==
    /\ t \in StopTasks /\ pc[t] = "browser_close"
    /\ \/ /\ browsers' = [browsers EXCEPT ![loc[t].browser].state = "closed",
                                            ![loc[t].browser].closes = @ + 1]
          /\ browser' = 0
          /\ StopTail(t)
       \/ /\ browsers' = [browsers EXCEPT ![loc[t].browser].closes = @ + 1]
          /\ Return(t, "Error")
          /\ loc' = [loc EXCEPT ![t] = NoLoc]
          /\ hist' = HistAtFinish(hist, "stop_err")
          /\ UNCHANGED <<browser, is_ready>>
    /\ UNCHANGED <<playwright, owns_playwright, launchers, contexts, pages, response>>
    /\ app' = AppAfterStop(pc'[t])
    /\ UNCHANGED built

\* await self._playwright.stop() resolves.
StopPwDone(t) ==
    /\ t \in StopTasks /\ pc[t] = "pw_stop"
    /\ \/ /\ launchers' = [launchers EXCEPT ![loc[t].pw].state = "stopped",
                                              ![loc[t].pw].stops = @ + 1]
          /\ playwright' = 0
          /\ is_ready' = FALSE
          /\ Return(t, "ok")
          /\ hist' = HistAtFinish(hist, "stop_ok")
       \/ /\ launchers' = [launchers EXCEPT ![loc[t].pw].stops = @ + 1]
          /\ Return(t, "Error")
          /\ hist' = HistAtFinish(hist, "stop_err")
          /\ UNCHANGED <<playwright, is_ready>>
    /\ loc' = [loc EXCEPT ![t] = NoLoc]
    /\ UNCHANGED <<browser, owns_playwright, browsers, contexts, pages, response>>
    /\ app' = AppAfterStop(pc'[t])
    /\ UNCHANGED built

----------------------------------------------------------------------------
\* PdfService.generate_pdf, called by the POST /pdf handler

\* Line 173, `return pdf_bytes`: what the call hands to its caller when it returns.
ReturnedHeaderOnly(l) == SubSeq(l.ret, 1, 1)

Returned(l) == l.ret

\* generate_pdf, its frame being l, returns or raises into the handler, which
\* builds the response.
Finish(t, l, res) ==
    /\ Return(t, res)
    /\ loc' = [loc EXCEPT ![t] = DropFrame(t, l)]
    /\ response' = [response EXCEPT ![t] = Respond(res, Returned(l))]

\* The body does not validate: FastAPI answers 422 and the handler is not run.
Reject(t, body) ==
    /\ pc' = [pc EXCEPT ![t] = "rejected"]
    /\ loc' = [loc EXCEPT ![t] = [NoLoc EXCEPT !.req = body]]
    /\ response' = [response EXCEPT ![t] = ValidationResponse]
    /\ UNCHANGED result

\* Lines 89-106 without the readiness check of lines 89-90.
GenCallUnchecked(t) ==
    /\ t \in GenTasks /\ Callable(t, GenTasks) /\ MayRequest
    /\ \E body \in Bodies :
          LET l == [NoLoc EXCEPT !.req = body] IN
          IF ~ValidHtml(body)
          THEN Reject(t, body)
          ELSE IF browser # 0
          THEN /\ pc' = [pc EXCEPT ![t] = "new_context"]
               /\ loc' = [loc EXCEPT ![t] = [l EXCEPT !.browser = browser, !.pre = TRUE]]
               /\ UNCHANGED <<result, response>>
          ELSE IF playwright # 0
          THEN /\ pc' = [pc EXCEPT ![t] = "launch"]
               /\ loc' = [loc EXCEPT ![t] = [l EXCEPT !.pw = playwright]]
               /\ UNCHANGED <<result, response>>
          ELSE Finish(t, l, "NoBrowser")
    /\ UNCHANGED <<svc, env, hist, app, built>>

\* A request arrives: the body is validated as a PdfRequest, then the handler
\* calls generate_pdf(html=request.html, options=request.options), lines 89-106:
\* the readiness check, then the choice of the browser.
GenCall(t) ==
    /\ t \in GenTasks /\ Callable(t, GenTasks) /\ MayRequest
    /\ \E body \in Bodies :
          LET l == [NoLoc EXCEPT !.req = body] IN
          IF ~ValidHtml(body)
          THEN Reject(t, body)
          ELSE IF ~is_ready
          THEN Finish(t, l, "NotReady")
          ELSE IF browser # 0
          THEN /\ pc' = [pc EXCEPT ![t] = "new_context"]
               /\ loc' = [loc EXCEPT ![t] = [l EXCEPT !.browser = browser, !.pre = TRUE]]
               /\ UNCHANGED <<result, response>>
          ELSE IF playwright # 0
          THEN /\ pc' = [pc EXCEPT ![t] = "launch"]
               /\ loc' = [loc EXCEPT ![t] = [l EXCEPT !.pw = playwright]]
               /\ UNCHANGED <<result, response>>
          ELSE Finish(t, l, "NoBrowser")
    /\ UNCHANGED <<svc, env, hist, app, built>>

\* Line 101 resolves, with the launched browser kept in self._browser.
GenLaunchCaches(t) ==
    /\ t \in GenTasks /\ pc[t] = "launch"
    /\ \/ /\ CanLaunch(loc[t].pw)
          /\ browsers' = Launched(t, loc[t].pw)
          /\ browser' = t
          /\ pc' = [pc EXCEPT ![t] = "new_context"]
          /\ loc' = [loc EXCEPT ![t].browser = t]
          /\ UNCHANGED <<result, response>>
       \/ /\ \E e \in StepErrors("launch") : Finish(t, loc[t], e)
          /\ UNCHANGED <<browsers, browser>>
    /\ UNCHANGED <<playwright, owns_playwright, is_ready, launchers, contexts, pages, hist, app, built>>

\* Line 101: await self._playwright.chromium.launch(headless=True) resolves.
GenLaunchDone(t) ==
    /\ t \in GenTasks /\ pc[t] = "launch"
    /\ \/ /\ CanLaunch(loc[t].pw)
          /\ browsers' = Launched(t, loc[t].pw)
          /\ pc' = [pc EXCEPT ![t] = "new_context"]
          /\ loc' = [loc EXCEPT ![t].browser = t]
          /\ UNCHANGED <<result, response>>
       \/ /\ \E e \in StepErrors("launch") : Finish(t, loc[t], e)
          /\ UNCHANGED browsers
    /\ UNCHANGED <<svc, launchers, contexts, pages, hist, app, built>>

\* Line 106 resolves, handing out the open context of an earlier request if any.
GenNewContextPooled(t) ==
    /\ t \in GenTasks /\ pc[t] = "new_context"
    /\ \/ /\ BrowserOpen(loc[t].browser)
          /\ LET pool == {c \in GenTasks : contexts[c].state = "open"}
                 c == IF pool = {} THEN t
                      ELSE CHOOSE x \in pool : \A y \in pool : x <= y IN
             /\ contexts' = IF pool = {}
                             THEN [contexts EXCEPT ![t] =
                                       [state |-> "open", browser |-> loc[t].browser,
                                        closes |-> 0, users |-> {t}]]
                             ELSE [contexts EXCEPT ![c].users = @ \cup {t}]
             /\ loc' = [loc EXCEPT ![t].context = c]
          /\ pc' = [pc EXCEPT ![t] = "new_page"]
          /\ UNCHANGED <<result, response>>
       \/ /\ Finish(t, loc[t], "Error")
          /\ UNCHANGED contexts
    /\ UNCHANGED <<svc, launchers, browsers, pages, hist, app, built>>

\* Line 106: await browser.new_context() resolves.
GenNewContextDone(t) ==
    /\ t \in GenTasks /\ pc[t] = "new_context"
    /\ \/ /\ BrowserOpen(loc[t].browser)
          /\ contexts' = [contexts EXCEPT ![t] =
                              [state |-> "open", browser |-> loc[t].browser,
                               closes |-> 0, users |-> {t}]]
          /\ pc' = [pc EXCEPT ![t] = "new_page"]
          /\ loc' = [loc EXCEPT ![t].context = t]
          /\ UNCHANGED <<result, response>>
       \/ /\ Finish(t, loc[t], "Error")
          /\ UNCHANGED contexts
    /\ UNCHANGED <<svc, launchers, browsers, pages, hist, app, built>>

\* Line 107: await context.new_page() resolves.
GenNewPageDone(t) ==
    /\ t \in GenTasks /\ pc[t] = "new_page"
    /\ contexts' = [contexts EXCEPT ![loc[t].context].users = @ \cup {t}]
    /\ \/ /\ BrowserOpen(loc[t].browser)
          /\ contexts[loc[t].context].state = "open"
          /\ pages' = [pages EXCEPT ![t] =
                           [state |-> "open", context |-> loc[t].context,
                            closes |-> 0, users |-> {t}, captured |-> <<>>]]
          /\ pc' = [pc EXCEPT ![t] = Pipeline[1]]
          /\ loc' = [loc EXCEPT ![t].page = t]
          /\ UNCHANGED <<result, response>>
       \/ /\ Finish(t, loc[t], "Error")
          /\ UNCHANGED pages
    /\ UNCHANGED <<svc, launchers, browsers, hist, app, built>>

StepIndex(step) == CHOOSE i \in 1 .. Len(Pipeline) : Pipeline[i] = step

IsStep(p) == \E i \in 1 .. Len(Pipeline) : Pipeline[i] = p

\* Line 114: the arguments of page.set_content.
ContentArgsStripped(l) ==
    [html |-> Strip(l.req.html), wait_until |-> "networkidle", timeout |-> ContentTimeout]

ContentArgs(l) ==
    [html |-> l.req.html, wait_until |-> "networkidle", timeout |-> ContentTimeout]

\* The truth value Python gives an optional string and an optional number.
TruthyStr(opt) == opt # <<>> /\ opt[1] # ""

TruthyNum(opt) == opt # <<>> /\ opt[1] # 0

MarginOf(options, side) ==
    CASE side = "top" -> options.margin_top
      [] side = "bottom" -> options.margin_bottom
      [] side = "left" -> options.margin_left
      [] side = "right" -> options.margin_right

\* Lines 180-210 with every margin given, "0" standing for one that is not set.
BuildPdfOptionsZeroMargins(options) ==
    LET side(k) == IF TruthyStr(MarginOf(options, k)) THEN MarginOf(options, k)[1] ELSE "0"
        keys == {"format", "landscape", "print_background", "margin"}
                    \cup (IF TruthyNum(options.scale) THEN {"scale"} ELSE {})
    IN [k \in keys |->
           CASE k = "format" -> options.format
             [] k = "landscape" -> options.landscape
             [] k = "print_background" -> options.print_background
             [] k = "margin" -> [top |-> side("top"), bottom |-> side("bottom"),
                                 left |-> side("left"), right |-> side("right")]
             [] k = "scale" -> options.scale[1]]

\* _build_pdf_options (lines 180-210), which generate_pdf does not call: format,
\* landscape and print_background pass through, "margin" holds the margins that
\* are set and is given when one is, "scale" is given when set.
BuildPdfOptions(options) ==
    LET sides == {k \in {"top", "bottom", "left", "right"} : TruthyStr(MarginOf(options, k))}
        margin == [k \in sides |-> MarginOf(options, k)[1]]
        keys == {"format", "landscape", "print_background"}
                    \cup (IF sides # {} THEN {"margin"} ELSE {})
                    \cup (IF TruthyNum(options.scale) THEN {"scale"} ELSE {})
    IN [k \in keys |->
           CASE k = "format" -> options.format
             [] k = "landscape" -> options.landscape
             [] k = "print_background" -> options.print_background
             [] k = "margin" -> margin
             [] k = "scale" -> options.scale[1]]

\* Lines 165-170: the arguments of page.pdf.
PdfArgsFromOptions(l) == BuildPdfOptions(ResolvedOptions(l.req))

PdfArgs(l) ==
    [width |-> Px(l.dims[1].width), height |-> Px(l.dims[1].height),
     print_background |-> TRUE,
     margin |-> [top |-> "0", right |-> "0", bottom |-> "0", left |-> "0"]]

\* The call on the page that a step of the try block makes, the frame being l.
StepCall(step, l) ==
    CASE step = "viewport" ->
             [name |-> "set_viewport_size",
              args |-> [width |-> InitialViewport, height |-> InitialViewport]]
      [] step = "content" -> [name |-> "set_content", args |-> ContentArgs(l)]
      [] step = "measure" -> [name |-> "evaluate", args |-> [expression |-> "content bounds"]]
      [] step = "style" ->
             [name |-> "add_style_tag", args |-> [content |-> "override stylesheet"]]
      [] step = "resize" ->
             [name |-> "set_viewport_size",
              args |-> [width |-> l.dims[1].width, height |-> l.dims[1].height]]
      [] step = "fonts" ->
             [name |-> "evaluate", args |-> [expression |-> "document.fonts.ready"]]
      [] step = "pdf" -> [name |-> "pdf", args |-> PdfArgs(l)]

\* What the call of a step can return: the measured bounds, the PDF, else None.
StepResults(step) ==
    CASE step = "measure" -> {<<g>> : g \in Geometries}
      [] step = "pdf" -> PdfBuffers
      [] OTHER -> {<<>>}

\* The frame after the call of a step returned out: `dimensions = ...` (lines
\* 117, 135-136) and `pdf_bytes = ...` (line 165).
Bind(step, l, out) ==
    CASE step = "measure" -> [l EXCEPT !.dims = out]
      [] step = "pdf" -> [l EXCEPT !.ret = out]
      [] OTHER -> l

\* The frame when a call of the try block raised e: the finally block reads none
\* of the try block's locals, and the record of its calls ends with it.
Unwind(l, e) == [l EXCEPT !.exc = e, !.dims = <<>>, !.ret = <<>>, !.calls = <<>>]

\* Lines 109-173 with the try block run by one request at a time: a call of it
\* resolves only when no request that arrived earlier is in its try block.
GenStepSerialized(t) ==
    /\ t \in GenTasks /\ IsStep(pc[t])
    /\ \A u \in GenTasks : u < t => ~IsStep(pc[u])
    /\ LET step == pc[t]
           p == loc[t].page
           used == [pages EXCEPT ![p].users = @ \cup {t}]
           l == [loc[t] EXCEPT !.calls = Append(@, StepCall(step, loc[t]))]
       IN \/ /\ BrowserOpen(loc[t].browser)
             /\ pages[p].state = "open"
             /\ \E out \in StepResults(step) :
                   /\ loc' = [loc EXCEPT ![t] = Bind(step, l, out)]
                   /\ pages' = IF step = "pdf"
                               THEN [used EXCEPT ![p].captured = out]
                               ELSE used
             /\ pc' = [pc EXCEPT ![t] = IF StepIndex(step) < Len(Pipeline)
                                        THEN Pipeline[StepIndex(step) + 1]
                                        ELSE "page_close"]
          \/ \E e \in StepErrors(step) :
                /\ pages' = used
                /\ pc' = [pc EXCEPT ![t] = "page_close"]
                /\ loc' = [loc EXCEPT ![t] = Unwind(l, e)]
    /\ UNCHANGED <<svc, launchers, browsers, contexts, result, response, hist, app, built>>

\* Lines 109-173: one awaited call of the try block resolves.  When it raises, or
\* when the last one returns, control passes to the finally block.
GenStep(t) ==
    /\ t \in GenTasks /\ IsStep(pc[t])
    /\ LET step == pc[t]
           p == loc[t].page
           used == [pages EXCEPT ![p].users = @ \cup {t}]
           l == [loc[t] EXCEPT !.calls = Append(@, StepCall(step, loc[t]))]
       IN \/ /\ BrowserOpen(loc[t].browser)
             /\ pages[p].state = "open"
             /\ \E out \in StepResults(step) :
                   /\ loc' = [loc EXCEPT ![t] = Bind(step, l, out)]
                   /\ pages' = IF step = "pdf"
                               THEN [used EXCEPT ![p].captured = out]
                               ELSE used
             /\ pc' = [pc EXCEPT ![t] = IF StepIndex(step) < Len(Pipeline)
                                        THEN Pipeline[StepIndex(step) + 1]
                                        ELSE "page_close"]
          \/ \E e \in StepErrors(step) :
                /\ pages' = used
                /\ pc' = [pc EXCEPT ![t] = "page_close"]
                /\ loc' = [loc EXCEPT ![t] = Unwind(l, e)]
    /\ UNCHANGED <<svc, launchers, browsers, contexts, result, response, hist, app, built>>

\* Line 177: await page.close() resolves.  When it raises, the finally block is
\* left with that exception and line 178 does not run.
GenPageCloseDone(t) ==
    /\ t \in GenTasks /\ pc[t] = "page_close"
    /\ \/ /\ pages' = [pages EXCEPT ![loc[t].page].state = "closed",
                                      ![loc[t].page].closes = @ + 1,
                                      ![loc[t].page].users = @ \cup {t}]
          /\ pc' = [pc EXCEPT ![t] = "context_close"]
          /\ UNCHANGED <<loc, result, response>>
       \/ /\ pages' = [pages EXCEPT ![loc[t].page].closes = @ + 1,
                                      ![loc[t].page].users = @ \cup {t}]
          /\ Finish(t, loc[t], "CloseError")
    /\ UNCHANGED <<svc, launchers, browsers, contexts, hist, app, built>>

\* Line 178: await context.close() resolves; generate_pdf then returns the bytes
\* or re-raises what the try block raised.
GenContextCloseDone(t) ==
    /\ t \in GenTasks /\ pc[t] = "context_close"
    /\ \/ /\ contexts' = [contexts EXCEPT ![loc[t].context].state = "closed",
                                            ![loc[t].context].closes = @ + 1,
                                            ![loc[t].context].users = @ \cup {t}]
          /\ Finish(t, loc[t], IF loc[t].exc = "none" THEN "ok" ELSE loc[t].exc)
       \/ /\ contexts' = [contexts EXCEPT ![loc[t].context].closes = @ + 1,
                                            ![loc[t].context].users = @ \cup {t}]
          /\ Finish(t, loc[t], "CloseError")
    /\ UNCHANGED <<svc, launchers, browsers, pages, hist, app, built>>

----------------------------------------------------------------------------
Next ==
    \E t \in Tasks :
        \/ StartCall(t)
        \/ StartPwDone(t)
        \/ StartLaunchDone(t)
        \/ StopCall(t)
        \/ StopCloseDone(t)
        \/ StopPwDone(t)
        \/ GenCall(t)
        \/ GenLaunchDone(t)
        \/ GenNewContextDone(t)
        \/ GenNewPageDone(t)
        \/ GenStep(t)
        \/ GenPageCloseDone(t)
        \/ GenContextCloseDone(t)

Spec == Init /\ [][Next]_vars

\* The application: the lifespan and the requests it serves.  A request never
\* launches a browser of its own there, the service owning the one start() launched.
NextApp ==
    \E t \in Tasks :
        \/ StartCall(t)
        \/ StartPwDone(t)
        \/ StartLaunchDone(t)
        \/ StopCall(t)
        \/ StopCloseDone(t)
        \/ StopPwDone(t)
        \/ GenCall(t)
        \/ GenNewContextDone(t)
        \/ GenNewPageDone(t)
        \/ GenStep(t)
        \/ GenPageCloseDone(t)
        \/ GenContextCloseDone(t)

SpecApp == InitApp /\ [][NextApp]_vars

\* The PdfOptions values _build_pdf_options is called with: a format (known to
\* the renderer or not), the two flags, each margin None, "" or a length, and a
\* scale None, 0, or a number outside the range 0.1 to 2.
OptionalMargins == {<<>>, <<"">>, <<"1cm">>}

OptionalScales == {<<>>, <<0>>, <<3>>}

AllOptions ==
    [format : {"A4", "Poster"}, landscape : BOOLEAN, print_background : BOOLEAN,
     margin_top : OptionalMargins, margin_bottom : OptionalMargins,
     margin_left : OptionalMargins, margin_right : OptionalMargins,
     scale : OptionalScales]

\* A call of self._build_pdf_options(options) returns.
BuildCall(options) ==
    /\ built' = <<[options |-> options, directive |-> BuildPdfOptions(options)]>>
    /\ UNCHANGED <<svc, env, pc, loc, result, response, hist, app>>

NextBuild == \E options \in AllOptions : BuildCall(options)

\* A service on which only _build_pdf_options is called.
SpecBuild == InitWith(FALSE, "direct") /\ [][NextBuild]_vars

----------------------------------------------------------------------------
\* Steps and states the properties speak of.

\* Task t makes its call in this step.
Calls(t) == pc[t] = "idle" /\ pc'[t] # "idle"

\* Task t returns normally in this step.
ReturnsOk(t) == pc[t] # "done" /\ pc'[t] = "done" /\ result'[t] = "ok"

\* This step is a step of generate_pdf call t.
GenStepOf(t) == t \in GenTasks /\ pc'[t] # pc[t]

OpenBrowsers == {b \in DOMAIN browsers : browsers[b].state = "open"}

\* Call t got as far as creating its context and its page.
HasSession(t) == contexts[t].state # "none" /\ pages[t].state # "none"

----------------------------------------------------------------------------
\* C1: when generate_pdf has returned or raised after creating a context and a
\* page, close was invoked exactly once on that page and exactly once on that
\* context.
SessionsClosedOnce ==
    \A t \in GenTasks :
        (pc[t] = "done" /\ HasSession(t)) =>
            (pages[t].closes = 1 /\ contexts[t].closes = 1)

\* C2: when a call of the try block raised E, generate_pdf raises E to its caller,
\* also when closing the page or the context raised afterwards.
CleanupDoesNotMask ==
    \A t \in GenTasks :
        (pc[t] = "done" /\ loc[t].exc # "none") => result[t] = loc[t].exc

NotReadyRejected ==
    [][\A t \in GenTasks :
           (Calls(t) /\ ~is_ready) =>
               /\ pc'[t] = "done"
               /\ result'[t] = "NotReady"
               /\ response'[t].detail =
                      <<"PDF generation failed: ", "PDF service is not started or not ready">>
               /\ UNCHANGED <<svc, env>>]_vars

\* C4 witness: a request made after stop() returned was rejected.
RejectedAfterStop ==
    \E t \in GenTasks, x \in StopTasks :
        result[t] = "NotReady" /\ result[x] = "ok" /\ hist = "stop_ok"

\* C5: a start() called on a service that a start() has started (a service
\* constructed by PdfService(), the last lifecycle call on it a start() that
\* returned) starts no launcher and launches no browser.
StartIdempotent ==
    \A t \in StartTasks :
        (owns_playwright /\ loc[t].pre) =>
            (launchers[t].state = "none" /\ browsers[t].state = "none")

\* C6: a stop() called on a service that was never started, or right after a
\* stop() that returned, returns at once without raising, closes nothing and
\* leaves is_ready false; every stop() that returns leaves is_ready false.
StopIdempotent ==
    /\ [][\A t \in StopTasks :
              (Calls(t) /\ hist \in {"none", "stop_ok"}) =>
                  /\ pc'[t] = "done"
                  /\ result'[t] = "ok"
                  /\ ~is_ready'
                  /\ UNCHANGED <<playwright, browser, owns_playwright, env>>]_vars
    /\ [][\A t \in StopTasks : ReturnsOk(t) => ~is_ready']_vars

\* C6 witness: two stop() calls in a row returned after a start(), and the browser
\* was closed once.
StoppedTwice ==
    \E s \in StartTasks, x \in StopTasks, y \in StopTasks :
        /\ x # y /\ result[x] = "ok" /\ result[y] = "ok"
        /\ result[s] = "ok" /\ browsers[s].closes = 1
        /\ hist = "stop_ok"

\* C7: every context and every page is used by the generate_pdf call that created
\* it and by no other, and no two calls hold the same context or the same page.
SessionsNotShared ==
    /\ \A c \in GenTasks : contexts[c].users \subseteq {c} /\ pages[c].users \subseteq {c}
    /\ \A t \in GenTasks :
           /\ loc[t].context # 0 => (loc[t].context = t /\ contexts[t].state # "none")
           /\ loc[t].page # 0 => (loc[t].page = t /\ pages[t].context = t)
    /\ \A t, u \in GenTasks :
           (t # u /\ loc[t].context # 0) => loc[t].context # loc[u].context

\* C7 witness: two requests are in their pipelines at once, on the same browser.
TwoSessionsAtOnce ==
    \E t, u \in GenTasks :
        /\ t # u /\ IsStep(pc[t]) /\ IsStep(pc[u])
        /\ loc[t].browser = loc[u].browser

AtMostOneEngine == owns_playwright => Cardinality(OpenBrowsers) <= 1

\* C10: the response to a request whose render timed out has status 504, to one
\* whose render failed otherwise status 500 and a detail giving the failure, to
\* one whose render returned status 200 and the PDF bytes.
StatusMapping ==
    \A t \in GenTasks :
        pc[t] = "done" =>
            /\ result[t] = "Timeout" => response[t].status = 504
            /\ result[t] = "ok" =>
                   (response[t].status = 200 /\ response[t].content = pages[t].captured)
            /\ result[t] \notin {"ok", "Timeout"} =>
                   /\ response[t].status = 500
                   /\ response[t].detail = <<"PDF generation failed: ", Message(result[t])>>

\* C10 witness: one request timed out, one failed otherwise and one succeeded.
AllOutcomesSeen ==
    \E t, u, v \in GenTasks :
        /\ result[t] = "Timeout" /\ response[t].status = 504
        /\ result[u] \in {"Error", "NotReady", "CloseError"} /\ response[u].status = 500
        /\ result[v] = "ok" /\ response[v].status = 200

----------------------------------------------------------------------------
\* Claims about the application (SpecApp) and about the data of a request.

\* Every character of html is a whitespace character (so is the empty string).
Blank(html) == \A i \in 1 .. Len(html) : html[i] \in Whitespace

\* The names of the calls the try block makes on its page, first to last.
ExpectedCalls ==
    <<"set_viewport_size", "set_content", "evaluate", "add_style_tag",
      "set_viewport_size", "evaluate", "pdf">>

\* The calls that generate_pdf call t has made on its page with this name.
CallsNamed(t, name) ==
    {i \in 1 .. Len(loc[t].calls) : loc[t].calls[i].name = name}

\* C11: a request whose html is missing, empty or all whitespace is answered 422;
\* generate_pdf is not invoked for it (nothing of the service, of a launcher,
\* browser, context or page changes, and no call result is ever recorded), and it
\* has no context and no page.
InvalidHtmlRejected ==
    /\ [][\A t \in GenTasks :
              (Calls(t) /\ (~loc'[t].req.has_html \/ Blank(loc'[t].req.html))) =>
                  /\ pc'[t] = "rejected"
                  /\ response'[t].status = 422
                  /\ UNCHANGED <<svc, env, result>>]_vars
    /\ [][\A t \in GenTasks : pc[t] = "rejected" => pc'[t] = "rejected"]_vars
    /\ [](\A t \in GenTasks :
              pc[t] = "rejected" =>
                  /\ result[t] = "none"
                  /\ contexts[t].state = "none" /\ pages[t].state = "none")

\* C11 witness: a request with missing html, one with empty html and one with
\* whitespace-only html can each be rejected.
BlankHtmlRejected ==
    \E t \in GenTasks :
        /\ pc[t] = "rejected" /\ response[t].status = 422
        /\ loc[t].req.has_html /\ loc[t].req.html = <<"\n", "\t">>

\* C12: the page.pdf call of a request is given the format and the landscape
\* flag of the request's options.
OptionsReachCapture ==
    \A t \in GenTasks :
        \A i \in CallsNamed(t, "pdf") :
            LET a == loc[t].calls[i].args
                o == ResolvedOptions(loc[t].req) IN
            /\ "format" \in DOMAIN a /\ a.format = o.format
            /\ "landscape" \in DOMAIN a /\ a.landscape = o.landscape

LifespanOrder ==
    /\ [][/\ \A t \in StartTasks :
                Calls(t) => (app = "boot" /\ \A u \in Tasks : pc[u] = "idle")
          /\ \A t \in StopTasks :
                Calls(t) =>
                    /\ \A x \in StopTasks : pc[x] = "idle"
                    /\ \E s \in StartTasks : result[s] = "ok"
                    /\ \A u \in GenTasks : pc[u] \in {"idle", "done", "rejected"}
          /\ \A t \in GenTasks :
                pc'[t] # pc[t] =>
                    /\ \E s \in StartTasks : result[s] = "ok"
                    /\ \A x \in StopTasks : pc[x] = "idle"]_vars
    /\ [](\A t \in GenTasks : result[t] \notin {"NotReady", "NoBrowser"})
    /\ [](Cardinality({s \in StartTasks : pc[s] # "idle"}) <= 1)
    /\ [](Cardinality({x \in StopTasks : pc[x] # "idle"}) <= 1)

\* C14 witness: the application started, served a request and stopped.
LifespanRan ==
    /\ app = "stopped"
    /\ \E s \in StartTasks, x \in StopTasks : result[s] = "ok" /\ result[x] = "ok"
    /\ \E t \in GenTasks : result[t] = "ok"

\* C15: when a call of the try block raised E, generate_pdf raises E, and page.close
\* and context.close were both called before.
RenderErrorReachesCaller ==
    \A t \in GenTasks :
        (pc[t] = "done" /\ loc[t].exc # "none") =>
            /\ result[t] = loc[t].exc
            /\ response[t].content = <<>>
            /\ pages[t].closes >= 1 /\ contexts[t].closes >= 1

\* C16: a request whose render returned is answered with exactly the buffer that
\* page.pdf returned, which starts with %PDF; its html was valid.
RenderReturnsCapture ==
    \A t \in GenTasks :
        (pc[t] = "done" /\ result[t] = "ok") =>
            /\ response[t].content = pages[t].captured
            /\ Len(response[t].content) >= 1
            /\ response[t].content[1] = "%PDF"
            /\ loc[t].req.has_html /\ ~Blank(loc[t].req.html)

\* C16 witness: a request was answered with the three-part buffer.
LongBufferReturned ==
    \E t \in GenTasks :
        result[t] = "ok" /\ response[t].content = <<"%PDF", "-1.7", "%%EOF">>

\* C17: when generate_pdf has returned or raised, close was called on the context
\* it created, if it created one.
ContextClosedOnExit ==
    \A t \in GenTasks :
        (pc[t] = "done" /\ contexts[t].state # "none") => contexts[t].closes >= 1

ContentTimeoutTerminal ==
    \A t \in GenTasks :
        (pc[t] = "done" /\ loc[t].exc = "Timeout") =>
            /\ result[t] = "Timeout" /\ response[t].status = 504
            /\ response[t].content = <<>> /\ pages[t].captured = <<>>
            /\ pages[t].closes >= 1 /\ contexts[t].closes >= 1

----------------------------------------------------------------------------
\* Claims about retries, startup failure, concurrency and release.

\* The awaits of start() and of generate_pdf, in program order.
Rank(p) ==
    CASE p = "idle" -> 0
      [] p = "pw_start" -> 1
      [] p = "launch" -> 2
      [] p = "new_context" -> 3
      [] p = "new_page" -> 4
      [] IsStep(p) -> 4 + StepIndex(p)
      [] p = "page_close" -> 5 + Len(Pipeline)
      [] p = "context_close" -> 6 + Len(Pipeline)
      [] OTHER -> 7 + Len(Pipeline)

\* C21: every step of a start() or generate_pdf call resolves the await the call
\* is at and moves it to a later one, so that no await is made twice by one call;
\* a call of the try block that raised is followed by the finally block only;
\* set_content, the measuring evaluate and pdf are each called at most once; and
\* when the launch of start() raises, start() raises at once, no browser launched.
NoRetries ==
    /\ [][\A t \in StartTasks \cup GenTasks :
              /\ (loc'[t] # loc[t] \/ result'[t] # result[t]) => pc'[t] # pc[t]
              /\ pc'[t] # pc[t] => Rank(pc'[t]) > Rank(pc[t])
              /\ (IsStep(pc[t]) /\ loc'[t].exc # "none") => pc'[t] = "page_close"
              /\ (t \in StartTasks /\ pc[t] = "launch" /\ browsers'[t].state = "none") =>
                     (pc'[t] = pc[t] \/ (pc'[t] = "done" /\ result'[t] \in StepErrors("launch")))]_vars
    /\ [](\A t \in GenTasks :
              /\ Cardinality(CallsNamed(t, "set_content")) <= 1
              /\ Cardinality(CallsNamed(t, "pdf")) <= 1
              /\ Cardinality({i \in CallsNamed(t, "evaluate") :
                     loc[t].calls[i].args = [expression |-> "content bounds"]}) <= 1)

\* C21 witness: the launch of a start() raised after its launcher had started:
\* the start() raised and no browser was launched.
LaunchFailedOnce ==
    \E s \in StartTasks :
        /\ pc[s] = "done" /\ result[s] \in {"Error", "Timeout"}
        /\ launchers[s].state = "running" /\ browsers[s].state = "none"

\* C22: when the launch of the lifespan's start() raises, start() raises into the
\* lifespan, which is left before its yield for good: the application never
\* serves, no request is handled, no browser is held and is_ready stays false.
LaunchFailureAbortsStartup ==
    /\ [][\A s \in StartTasks :
              (app = "starting" /\ pc[s] = "launch" /\ pc'[s] = "done" /\ browsers'[s].state = "none") =>
                  /\ result'[s] \in {"Error", "Timeout"}
                  /\ app' = "failed"
                  /\ ~is_ready']_vars
    /\ [][app = "failed" => app' = "failed"]_vars
    /\ [](app = "failed" =>
              /\ ~is_ready /\ browser = 0
              /\ \A t \in GenTasks : pc[t] = "idle" /\ response[t] = NoResponse
              /\ \A x \in StopTasks : pc[x] = "idle"
              /\ \A b \in DOMAIN browsers : browsers[b].state = "none")

\* C22 witness: the lifespan's start() started its launcher, then its launch
\* timed out.
StartupAborted ==
    \E s \in StartTasks :
        /\ app = "failed" /\ result[s] = "Timeout"
        /\ launchers[s].state = "running" /\ playwright = s

\* Request t is suspended at its content load, its font wait or its capture.
Suspended(t) == pc[t] \in {"content", "fonts", "pdf"}

\* The awaited call that request u is suspended at can return now.
CanAdvance(u) ==
    \/ ENABLED (GenNewContextDone(u) /\ pc'[u] = "new_page")
    \/ ENABLED (GenNewPageDone(u) /\ pc'[u] = Pipeline[1])
    \/ ENABLED (GenStep(u) /\ loc'[u].exc = "none")
    \/ ENABLED (GenPageCloseDone(u) /\ pc'[u] = "context_close")
    \/ ENABLED (GenContextCloseDone(u) /\ result'[u] # "CloseError")

\* C23: while a request is suspended at its content load, its font wait or its
\* capture, every other request that is in flight on an open browser can take its
\* next step at once, whatever the order the two arrived in.
RequestsDoNotBlock ==
    \A t, u \in GenTasks :
        (t # u /\ Suspended(t) /\ InFlight(u) /\ pc[u] # "launch"
             /\ BrowserOpen(loc[u].browser)) => CanAdvance(u)

\* C23 witness: a request that arrived after another one has created its session
\* and completed while the earlier one is still suspended at its content load.
LaterRequestOvertook ==
    \E t, u \in GenTasks :
        /\ t < u /\ pc[t] = "content"
        /\ pc[u] = "done" /\ result[u] = "ok" /\ HasSession(u)
        /\ loc[t].browser = contexts[u].browser

\* The margin options of a PdfOptions value, by the side they are for.
MarginOptions(o) ==
    [top |-> o.margin_top, bottom |-> o.margin_bottom,
     left |-> o.margin_left, right |-> o.margin_right]

\* The sides that the directive d gives a margin for.
MarginSides(d) == IF "margin" \in DOMAIN d THEN DOMAIN d.margin ELSE {}

\* format, landscape, print_background and scale of the directive d built from o:
\* the first three are those of o, scale is there when o has one that is not 0,
\* and is then that of o; d has no other key than these and "margin".
PassThrough(o, d) ==
    /\ DOMAIN d \subseteq {"format", "landscape", "print_background", "margin", "scale"}
    /\ {"format", "landscape", "print_background"} \subseteq DOMAIN d
    /\ d.format = o.format
    /\ d.landscape = o.landscape
    /\ d.print_background = o.print_background
    /\ "scale" \in DOMAIN d <=> (o.scale # <<>> /\ o.scale[1] # 0)
    /\ "scale" \in DOMAIN d => d.scale = o.scale[1]
    /\ "margin" \in DOMAIN d => DOMAIN d.margin # {}

\* C24 as stated: format, landscape and print_background pass through, scale is
\* given when it is set and not 0, unchanged, and a margin is given exactly when
\* the option is set (not None), with its value; "margin" is left out when none is.
BuildMapsSetMargins ==
    \A i \in 1 .. Len(built) :
        LET o == built[i].options
            d == built[i].directive IN
        /\ PassThrough(o, d)
        /\ MarginSides(d) = {k \in DOMAIN MarginOptions(o) : MarginOptions(o)[k] # <<>>}
        /\ \A k \in MarginSides(d) : d.margin[k] = MarginOptions(o)[k][1]

\* C24 as amended: as stated, but a margin is given exactly when the option is set
\* and is not the empty string.
BuildMapsNonEmptyMargins ==
    \A i \in 1 .. Len(built) :
        LET o == built[i].options
            d == built[i].directive IN
        /\ PassThrough(o, d)
        /\ MarginSides(d) =
               {k \in DOMAIN MarginOptions(o) :
                    MarginOptions(o)[k] # <<>> /\ MarginOptions(o)[k] # <<"">>}
        /\ \A k \in MarginSides(d) : d.margin[k] = MarginOptions(o)[k][1]

\* C24 witness: options with a top margin only, an empty left margin and scale 3
\* were mapped to a directive with the top margin alone and scale 3.
BuiltTopMarginOnly ==
    \E i \in 1 .. Len(built) :
        /\ built[i].options.margin_top = <<"1cm">>
        /\ built[i].options.margin_left = <<"">>
        /\ built[i].options.margin_bottom = <<>>
        /\ built[i].options.margin_right = <<>>
        /\ built[i].options.scale = <<3>>
        /\ MarginSides(built[i].directive) = {"top"}
        /\ built[i].directive.scale = 3

\* C25: whenever is_ready is true, the service holds a browser, and that browser
\* is open.
ReadyMeansBrowser == is_ready => (browser # 0 /\ BrowserOpen(browser))

\* C26: after a stop() has returned, and as long as no start() has been called
\* since, no context and no page is created and no page.pdf call is made.
NothingNewAfterStop ==
    [][hist = "stop_ok" =>
           \A t \in GenTasks :
               /\ contexts[t].state = "none" => contexts'[t].state = "none"
               /\ pages[t].state = "none" => pages'[t].state = "none"
               /\ pc[t] # "pdf" => pc'[t] # "pdf"]_vars

\* C27: when a stop() has returned, and as long as no lifecycle call has been made
\* since, no browser is open, a launcher that the service started is not running,
\* and the injected launcher has never been stopped.
StopReleasesAll ==
    hist = "stop_ok" =>
        /\ OpenBrowsers = {}
        /\ \A l \in StartTasks : launchers[l].state # "running"
        /\ launchers[Injected].stops = 0

====
